---- MODULE Spec2Model ----
(***************************************************************************)
(* Request dispatch, admission control (fixed-window rate limiter) and     *)
(* the items repository of src/src/worker.js, as a state machine.          *)
(*                                                                         *)
(* One request is a process held in a slot of req.  A step of a request is *)
(* the synchronous code between two suspension points (await on the        *)
(* counter store or on the database); the clock may advance and, in the    *)
(* concurrent specification, other requests may run between two steps.     *)
(***************************************************************************)
EXTENDS Integers, Sequences, FiniteSets, TLC

(***************************************************************************)
(* Program constants                                                       *)
(***************************************************************************)
RATE_LIMIT_WINDOW == 1000
MAX_REQUESTS_PER_WINDOW == 2
\* expirationTtl of every kv.put, in seconds
KV_EXPIRATION_TTL == 2
\* the in-memory entry lives RATE_LIMIT_WINDOW * 2
MEM_EXPIRES_WINDOWS == 2

(***************************************************************************)
(* Bounds of the model                                                     *)
(***************************************************************************)
\* requests received in one behaviour of the admission-control specification
MaxRequests == 4
\* requests received in one behaviour of the repository specification
MaxRepoRequests == 2
\* rows ever inserted (values of the AUTOINCREMENT sequence)
MaxRows == 2
\* request slots (requests that can be in flight together)
MaxInFlight == 3
\* requests received in a run of the concurrent repository specification
MaxConcRequests == 3
\* requests received in a run that keeps every answer
MaxSeqRequests == 2
MaxRaceRequests == 3
MaxBurstRequests == 5
MaxExpiryRequests == 4
MaxSweepRequests == 3
MaxMemRequests == 3

Slots == 1..MaxInFlight

\* the instants the clock takes, in milliseconds: a fine schedule around the
\* window and expiry boundaries, and a coarse one of one instant per window
Instants == <<0, 200, 400, 1050>>
CoarseInstants == <<0, 1050>>
\* a schedule that reaches the expiry of the counters created at 0 and 400
LateInstants == <<0, 400, 1050, 2000, 2050, 3050>>
\* one instant per window, up to the expiry of the counters created at 0
SweepInstants == <<0, 1050, 2050>>

(***************************************************************************)
(* JSON values and strings.  A string is a sequence of characters.         *)
(***************************************************************************)
Undef == [t |-> "undefined", s |-> <<>>]
Null == [t |-> "null", s |-> <<>>]
Num == [t |-> "number", s |-> <<>>]
Str(s) == [t |-> "string", s |-> s]

\* JavaScript truthiness of a JSON value (Num stands for a non-zero number)
Truthy(v) == v.t = "number" \/ (v.t = "string" /\ v.s # <<>>)

\* (mutant) only the blank is white space
IsSpaceBlankOnly(c) == c = " "

\* the white space String.prototype.trim removes (of the characters used here)
IsSpace(c) == c \in {" ", "\t"}

RECURSIVE TrimStart(_)
TrimStart(s) ==
  IF s = <<>> THEN <<>>
  ELSE IF IsSpace(Head(s)) THEN TrimStart(Tail(s)) ELSE s

RECURSIVE TrimEnd(_)
TrimEnd(s) ==
  IF s = <<>> THEN <<>>
  ELSE IF IsSpace(s[Len(s)]) THEN TrimEnd(SubSeq(s, 1, Len(s) - 1)) ELSE s

\* String.prototype.trim
Trim(s) == TrimEnd(TrimStart(s))

\* Number.prototype.toString for 0..99, as a string of digits
Digit(n) == <<"0", "1", "2", "3", "4", "5", "6", "7", "8", "9">>[n + 1]
NumToString(n) == IF n < 10 THEN <<Digit(n)>> ELSE <<Digit(n \div 10), Digit(n % 10)>>

DigitValue(c) == CHOOSE n \in 0..9 : Digit(n) = c

\* parseInt of a string of digits
RECURSIVE ParseInt(_)
ParseInt(s) ==
  IF s = <<>> THEN 0
  ELSE ParseInt(SubSeq(s, 1, Len(s) - 1)) * 10 + DigitValue(s[Len(s)])

\* Math.ceil(a / b) for b > 0 and any integer a
CeilDiv(a, b) == -((-a) \div b)

(***************************************************************************)
(* Requests                                                                *)
(***************************************************************************)
\* A path is the sequence of its non-empty segments: "/api/items/1" is
\* <<"api", "items", "1">> and "/" is <<>>.
Paths ==
  { <<>>, <<"schema.sql">>, <<"other">>,
    <<"api", "items">>, <<"api", "items", "1">>, <<"api", "items", "2">>,
    <<"api", "items", "abc">>, <<"api", "items", "1", "x">>, <<"api", "itemsX">> }

Methods == {"GET", "POST", "PUT", "DELETE", "OPTIONS", "PATCH"}

\* The client-address headers; "" is an absent header.
Headers == { [cf |-> "", xff |-> ""], [cf |-> "A", xff |-> "B"] }

\* A request body: text that is not JSON, the JSON value null, or an object.
NoBody == [kind |-> "none", name |-> Undef, description |-> Undef]
Malformed == [kind |-> "malformed", name |-> Undef, description |-> Undef]
JsonNull == [kind |-> "null", name |-> Undef, description |-> Undef]
Obj(n, d) == [kind |-> "object", name |-> n, description |-> d]

Bodies ==
  { Malformed, JsonNull,
    Obj(Undef, Undef), Obj(Str(<<>>), Str(<<"d">>)), Obj(Str(<<" ", "\t">>), Undef),
    Obj(Num, Undef), Obj(Str(<<"b">>), Num),
    Obj(Str(<<" ", "a", " ">>), Str(<<" ", "d", " ">>)),
    Obj(Str(<<"b">>), Undef), Obj(Str(<<"b">>), Str(<<" ">>)) }

\* path.startsWith('/api/items'): the second segment begins with "items"
StartsWithApiItems(p) ==
  Len(p) >= 2 /\ p[1] = "api" /\ p[2] \in {"items", "itemsX"}

\* The requests the environment sends: only POST and PUT carry a body.
Request(m, p, h, b, pg, lm) ==
  [method |-> m, path |-> p, headers |-> h, body |-> b, page |-> pg, limit |-> lm]

\* The query parameters page and limit, as text; <<>> is an absent parameter.
QueryTexts == {<<>>, <<"1">>, <<"2">>}

ApiPaths == {p \in Paths : StartsWithApiItems(p)}

Anonymous == [cf |-> "", xff |-> ""]
ClientA == [cf |-> "A", xff |-> "B"]

\* The requests of the repository specification: one client, every method,
\* path and body.  Only POST and PUT carry a body, only list requests a query.
RepoInputs ==
  {Request("POST", <<"api", "items">>, ClientA, b, <<>>, <<>>) : b \in Bodies}
    \cup {Request("PUT", p, ClientA, b, <<>>, <<>>) :
            p \in {<<"api", "items", "1">>, <<"api", "items", "abc">>}, b \in Bodies}
    \cup {Request("PUT", p, ClientA, b, <<>>, <<>>) :
            p \in {<<"api", "items">>, <<"api", "items", "2">>, <<"api", "items", "1", "x">>},
            b \in {Malformed, Obj(Undef, Undef), Obj(Str(<<"b">>), Undef)}}
    \cup {Request(m, p, ClientA, NoBody, <<>>, <<>>) : m \in {"GET", "DELETE"}, p \in ApiPaths}
    \cup {Request("GET", <<"api", "items">>, ClientA, NoBody, pg, lm) :
            pg \in {<<"1">>, <<"2">>}, lm \in {<<"1">>, <<"2">>}}
    \cup {Request("PATCH", p, ClientA, NoBody, <<>>, <<>>) :
            p \in {<<"api", "items">>, <<"api", "items", "1">>}}
    \cup {Request("OPTIONS", p, ClientA, NoBody, <<>>, <<>>) :
            p \in {<<>>, <<"api", "items">>, <<"api", "items", "1">>}}
    \cup {Request("GET", p, ClientA, NoBody, <<>>, <<>>) : p \in Paths \ ApiPaths}
    \cup {Request("POST", <<"other">>, ClientA, NoBody, <<>>, <<>>)}

\* The requests of the admission-control specification: every method from
\* client A, and a write and a read from a client without address headers.
LimiterInputs ==
  {Request(m, <<"api", "items">>, ClientA, Obj(Str(<<" ", "a", " ">>), Undef), <<>>, <<>>) :
     m \in {"POST"}}
    \cup {Request("PUT", <<"api", "items", "1">>, ClientA, Obj(Str(<<"b">>), Undef), <<>>, <<>>)}
    \cup {Request("DELETE", <<"api", "items", "1">>, h, NoBody, <<>>, <<>>) : h \in Headers}
    \cup {Request("GET", <<"api", "items", "1">>, ClientA, NoBody, <<>>, <<>>)}
    \cup {Request(m, <<"api", "itemsX">>, ClientA, NoBody, <<>>, <<>>) :
            m \in {"PATCH", "OPTIONS"}}
    \cup {Request("GET", <<"api", "items">>, ClientA, NoBody, <<>>, <<>>)}
    \cup {Request("OPTIONS", <<>>, Anonymous, NoBody, <<>>, <<>>)}

\* Requests of two clients that race on rows 1 and 2: a create, an update and a
\* delete of row 1, and the two reads
ConcInputs ==
  { Request("POST", <<"api", "items">>, ClientA,
            Obj(Str(<<" ", "a", " ">>), Str(<<" ", "d", " ">>)), <<>>, <<>>),
    Request("PUT", <<"api", "items", "1">>, Anonymous, Obj(Str(<<"b">>), Undef), <<>>, <<>>),
    Request("DELETE", <<"api", "items", "1">>, Anonymous, NoBody, <<>>, <<>>),
    Request("GET", <<"api", "items", "1">>, ClientA, NoBody, <<>>, <<>>),
    Request("GET", <<"api", "items">>, ClientA, NoBody, <<>>, <<>>) }

\* Requests on rows 1 to 3: creates, reads, an update and deletes
SeqInputs ==
  { Request("POST", <<"api", "items">>, ClientA, b, <<>>, <<>>) :
      b \in {Obj(Str(<<" ", "a", " ">>), Str(<<" ", "d", " ">>)), Obj(Str(<<"b">>), Undef)} }
    \cup {Request("GET", <<"api", "items", i>>, ClientA, NoBody, <<>>, <<>>) :
            i \in {"1", "2", "3"}}
    \cup {Request("DELETE", <<"api", "items", i>>, Anonymous, NoBody, <<>>, <<>>) :
            i \in {"1", "2"}}
    \cup {Request("PUT", <<"api", "items", "1">>, Anonymous,
                   Obj(Str(<<"b">>), Str(<<" ">>)), <<>>, <<>>)}

\* List requests with and without page and limit, a create and a delete
ListInputs ==
  {Request("GET", <<"api", "items">>, ClientA, NoBody, <<>>, <<>>)}
    \cup {Request("GET", <<"api", "items">>, ClientA, NoBody, pg, lm) :
            pg \in {<<"1">>, <<"2">>, <<"3">>}, lm \in {<<"1">>, <<"2">>}}
    \cup {Request("POST", <<"api", "items">>, ClientA, Obj(Str(<<"b">>), Undef), <<>>, <<>>),
          Request("DELETE", <<"api", "items", "1">>, Anonymous, NoBody, <<>>, <<>>)}

(***************************************************************************)
(* State                                                                   *)
(***************************************************************************)
VARIABLES
  now,             \* Date.now(), in milliseconds
  useKV,           \* env.RATE_LIMIT_KV is configured
  kv,              \* the durable counter store: key -> [value, expiresAt]
  rateLimitStore,  \* globalThis.rateLimitStore: key -> [count, expires]
  items,           \* the rows of table items
  lastRowId,       \* the AUTOINCREMENT sequence of table items
  req,             \* the request of each slot, with its position and locals
  nreq,            \* requests received so far
  hist             \* per counter key: what the limiter decided so far

vars == <<now, useKV, kv, rateLimitStore, items, lastRowId, req, nreq, hist>>

(***************************************************************************)
(* Responses                                                               *)
(***************************************************************************)
\* new Response(body, {status, headers}): kind names the shape of the body,
\* cors tells that corsHeaders were merged into the headers.
Response(status, kind, error) ==
  [status |-> status, kind |-> kind, error |-> error, retryAfter |-> 0,
   item |-> {}, list |-> <<>>, page |-> 0, limit |-> 0, total |-> 0, pages |-> 0,
   cors |-> TRUE]

NoResponse == [Response(0, "none", "") EXCEPT !.cors = FALSE]

\* fetch, lines 14-19: the preflight answer, status 200 by default, body null
PreflightResponse == Response(200, "empty", "")

\* fetch, lines 25-35
RateLimitResponse(resetTime, t) ==
  [Response(429, "rate_limit", "Rate limit exceeded")
     EXCEPT !.retryAfter = CeilDiv(resetTime - t, 1000)]

(***************************************************************************)
(* History of the limiter, per counter key                                 *)
(***************************************************************************)
\* admitted: the requests allowed; rejectedAt: the clock reading (now) of the
\* last request rejected, -1 if none; faulted: a request met a backend error;
\* inFlight: the most requests that were between their kv.get and the end of
\* their kv.put at the same time
NoHist == [admitted |-> 0, rejectedAt |-> -1, faulted |-> FALSE, inFlight |-> 0]

(***************************************************************************)
(* The request of a slot                                                   *)
(***************************************************************************)
Idle == [pc |-> "idle"]

\* A request on entry to fetch: its inputs, the locals of checkRateLimit
\* and of handleItemsAPI still unset, and the history kept of it.  pre is the
\* table and the counter stores as the request found them.
NewRequest(q, pre) ==
  [pc |-> "fetch", method |-> q.method, path |-> q.path, headers |-> q.headers,
   body |-> q.body, page |-> q.page, limit |-> q.limit,
   \* locals of checkRateLimit
   clientIP |-> "", now0 |-> 0, windowKey |-> 0, currentCount |-> 0, resetTime |-> 0,
   \* locals of handleItemsAPI
   id |-> "", name |-> <<>>, description |-> Null, existing |-> {}, newId |-> 0,
   total |-> 0,
   resp |-> NoResponse,
   \* history of the request
   checked |-> FALSE, limited |-> FALSE, backendFault |-> FALSE, dbFault |-> FALSE,
   routed |-> FALSE, bodyRead |-> FALSE, dbCalls |-> 0, before |-> NoHist, pre |-> pre]

InFlight(r) == req[r].pc \notin {"idle", "done"}

Done(q, resp) == [q EXCEPT !.pc = "done", !.resp = resp]

(***************************************************************************)
(* Admission control: checkRateLimit                                       *)
(***************************************************************************)
\* (mutant) the address headers are ignored: every client is "anonymous"
ClientIPShared(h) == "anonymous"

\* lines 82-84
ClientIP(h) ==
  IF h.cf # "" THEN h.cf ELSE IF h.xff # "" THEN h.xff ELSE "anonymous"

\* line 88
WindowKey(t) == t \div RATE_LIMIT_WINDOW

\* (mutant) a key without the client
RateLimitKeyNoClient(ip, w) == <<"", w>>

\* (mutant) a key without the window index
RateLimitKeyNoWindow(ip, w) == <<ip, 0>>

\* line 89: the key `rate_limit:${clientIP}:${windowKey}`
RateLimitKey(ip, w) == <<ip, w>>

\* (mutant) the reset time is the start of the window
ResetTimeWindowStart(w) == w * RATE_LIMIT_WINDOW

\* lines 106 and 133
ResetTime(w) == (w + 1) * RATE_LIMIT_WINDOW

\* kv.get(key, {type: 'text'}): the stored text, or <<>> for null
KvGet(store, key) == IF key \in DOMAIN store THEN store[key].value ELSE <<>>

\* kv.put(key, value, {expirationTtl}) at time t
KvPut(store, key, value, t) ==
  [k \in DOMAIN store \cup {key} |->
     IF k = key
     THEN [value |-> value, expiresAt |-> t + KV_EXPIRATION_TTL * 1000]
     ELSE store[k]]

\* the durable store drops a key once its expiration time is reached
KvExpire(store, t) ==
  [k \in {x \in DOMAIN store : store[x].expiresAt > t} |-> store[k]]

\* (mutant) the expiry is counted from the end of the key's lifetime backwards:
\* an entry is dropped as soon as it is one window old
SweepAfterOneWindow(store, t) ==
  [k \in {x \in DOMAIN store : ~(store[x].expires < t + RATE_LIMIT_WINDOW)} |-> store[k]]

\* (mutant) the comparison off by one
SaturatedOffByOne(count) == count > MAX_REQUESTS_PER_WINDOW

\* lines 103 and 130: the window is full
Saturated(count) == count >= MAX_REQUESTS_PER_WINDOW

\* (mutant) a rejected request is counted too
MemCheckCountsRejected(store, key, t) ==
  IF key \notin DOMAIN store
  THEN [store |-> [k \in DOMAIN store \cup {key} |->
                     IF k = key
                     THEN [count |-> 1,
                           expires |-> t + RATE_LIMIT_WINDOW * MEM_EXPIRES_WINDOWS]
                     ELSE store[k]],
        limited |-> FALSE]
  ELSE [store |-> [store EXCEPT ![key].count = @ + 1],
        limited |-> Saturated(store[key].count)]

\* lines 122-137: the in-memory branch; the store after it and the decision
MemCheck(store, key, t) ==
  IF key \notin DOMAIN store
  THEN [store |-> [k \in DOMAIN store \cup {key} |->
                     IF k = key
                     THEN [count |-> 1,
                           expires |-> t + RATE_LIMIT_WINDOW * MEM_EXPIRES_WINDOWS]
                     ELSE store[k]],
        limited |-> FALSE]
  ELSE IF Saturated(store[key].count)
       THEN [store |-> store, limited |-> TRUE]
       ELSE [store |-> [store EXCEPT ![key].count = @ + 1], limited |-> FALSE]

\* (mutant) the cleanup deletes nothing
SweepKeepsAll(store, t) == store

\* lines 141-145: the cleanup of expired entries
Sweep(store, t) ==
  [k \in {x \in DOMAIN store : ~(store[x].expires < t)} |-> store[k]]

\* what the limiter decided so far for a key
HistOf(h, key) == IF key \in DOMAIN h THEN h[key] ELSE NoHist

HistSet(h, key, v) == [k \in DOMAIN h \cup {key} |-> IF k = key THEN v ELSE h[k]]

Admitted(h, key) == HistSet(h, key, [HistOf(h, key) EXCEPT !.admitted = @ + 1])
Rejected(h, key, t) == HistSet(h, key, [HistOf(h, key) EXCEPT !.rejectedAt = t])
Faulted(h, key) ==
  HistSet(h, key, [HistOf(h, key) EXCEPT !.faulted = TRUE, !.admitted = @ + 1])
Overlapped(h, key, n) ==
  HistSet(h, key, [HistOf(h, key) EXCEPT !.inFlight = IF n > @ THEN n ELSE @])

(***************************************************************************)
(* Item repository: handleItemsAPI                                         *)
(***************************************************************************)
\* (mutant) the third path part is the id whatever follows it
PathIdAnyDepth(p) == IF Len(p) >= 3 THEN p[3] ELSE ""

\* lines 163-164: the id is the third path part when there are exactly three
PathId(p) == IF Len(p) = 3 THEN p[3] ELSE ""

\* The INTEGER value a bound text parameter compares equal to (0: none)
IdOfSegment(seg) ==
  CASE seg = "1" -> 1 [] seg = "2" -> 2 [] seg = "3" -> 3 [] seg = "4" -> 4
    [] OTHER -> 0

\* (mutant) the WHERE clause is missing
SelectAny(rows, id) == IF rows = {} THEN {} ELSE {CHOOSE row \in rows : TRUE}

\* SELECT * FROM items WHERE id = ?  (.first(): a row or null, here {})
SelectById(rows, id) == {row \in rows : row.id = id}

\* INSERT INTO items (name, description) VALUES (?, ?)
InsertRow(rows, id, name, description, t) ==
  rows \cup {[id |-> id, name |-> name, description |-> description,
              created_at |-> t \div 1000]}

\* (mutant) the UPDATE has no WHERE clause
UpdateRowAll(rows, id, name, description) ==
  {[row EXCEPT !.name = name, !.description = description] : row \in rows}

\* UPDATE items SET name = ?, description = ? WHERE id = ?
UpdateRow(rows, id, name, description) ==
  {IF row.id = id
   THEN [row EXCEPT !.name = name, !.description = description]
   ELSE row : row \in rows}

\* (mutant) the DELETE has no WHERE clause
DeleteRowAll(rows, id) == {}

\* DELETE FROM items WHERE id = ?
DeleteRow(rows, id) == {row \in rows : row.id # id}

\* (mutant) the name is not trimmed before it is tested
ValidateBodyNoTrim(b) ==
  IF b.kind # "object" THEN "throw"
  ELSE IF ~Truthy(b.name) THEN "name_required"
  ELSE IF b.name.t # "string" THEN "throw"
  ELSE "ok"

\* lines 222-236 and 287-301: request.json(), the destructuring and the
\* validation of name: "throw", "name_required" or "ok"
ValidateBody(b) ==
  IF b.kind # "object" THEN "throw"
  ELSE IF ~Truthy(b.name) THEN "name_required"
  ELSE IF b.name.t # "string" THEN "throw"
  ELSE IF Trim(b.name.s) = <<>> THEN "name_required"
  ELSE "ok"

\* lines 240 and 324: description ? description.trim() : null
\* (a truthy description that is no string has no trim: it throws)
DescriptionThrows(b) == Truthy(b.description) /\ b.description.t # "string"
\* (mutant) the name is bound as it was sent
BoundNameRaw(b) == b.name.s
BoundName(b) == Trim(b.name.s)
BoundDescription(b) ==
  IF Truthy(b.description) THEN Str(Trim(b.description.s)) ELSE Null

\* the answers of handleItemsAPI
NameRequired == Response(400, "error", "Name is required")
InvalidJson == Response(400, "error", "Invalid JSON data")
IdRequired == Response(400, "error", "ID is required")
ItemNotFound == Response(404, "error", "Item not found")
MethodNotAllowed == Response(405, "error", "Method not allowed")
InternalError == Response(500, "error", "Internal server error")
NotFound == Response(404, "error", "Not found")
ItemResponse(status, kind, found) == [Response(status, kind, "") EXCEPT !.item = found]

\* lines 190-191: parseInt(searchParams.get(name) || fallback)
QueryInt(text, fallback) == IF text = <<>> THEN fallback ELSE ParseInt(text)

\* (mutant) the page count without its minimum of 1
PagesNoMinimum(total, limit) == CeilDiv(total, limit)

\* line 209: Math.ceil(total / limit) || 1
Pages(total, limit) ==
  IF CeilDiv(total, limit) = 0 THEN 1 ELSE CeilDiv(total, limit)

\* ORDER BY created_at DESC: every order of the rows the statement allows
Orderings(rows) ==
  {o \in [1..Cardinality(rows) -> rows] :
     /\ \A i, j \in DOMAIN o : i # j => o[i] # o[j]
     /\ \A i, j \in DOMAIN o : i < j => o[i].created_at >= o[j].created_at}

\* LIMIT ? OFFSET ? of an ordered result
LimitOffset(o, limit, offset) ==
  IF offset >= Len(o) \/ limit <= 0 THEN <<>>
  ELSE SubSeq(o, offset + 1, IF offset + limit < Len(o) THEN offset + limit ELSE Len(o))

\* handleItemsAPI from its entry to its first database call, lines 157-412
HandleItemsAPI(q0) ==
  LET q == [q0 EXCEPT !.id = PathId(q0.path), !.routed = TRUE] IN
  CASE q.method = "GET" ->
         IF q.id # "" THEN [q EXCEPT !.pc = "get_one"]
         ELSE [q EXCEPT !.pc = "list_count"]
    [] q.method = "POST" ->
         LET b == [q EXCEPT !.bodyRead = TRUE] IN
         CASE ValidateBody(q.body) = "throw" -> Done(b, InvalidJson)
           [] ValidateBody(q.body) = "name_required" -> Done(b, NameRequired)
           [] OTHER ->
                IF DescriptionThrows(q.body) THEN Done(b, InvalidJson)
                ELSE [b EXCEPT !.pc = "post_insert", !.name = BoundName(q.body),
                               !.description = BoundDescription(q.body)]
    [] q.method = "PUT" ->
         IF q.id = "" THEN Done(q, IdRequired)
         ELSE LET b == [q EXCEPT !.bodyRead = TRUE] IN
              CASE ValidateBody(q.body) = "throw" -> Done(b, InvalidJson)
                [] ValidateBody(q.body) = "name_required" -> Done(b, NameRequired)
                [] OTHER -> [b EXCEPT !.pc = "put_select"]
    [] q.method = "DELETE" ->
         IF q.id = "" THEN Done(q, IdRequired)
         ELSE [q EXCEPT !.pc = "del_select"]
    [] OTHER -> Done(q, MethodNotAllowed)

\* fetch, lines 39-70: the routes behind the rate limiter
Route(q) ==
  IF StartsWithApiItems(q.path) THEN HandleItemsAPI(q)
  ELSE IF q.path = <<>> THEN Done(q, Response(200, "html", ""))
  ELSE IF q.path = <<"schema.sql">> THEN Done(q, Response(200, "sql", ""))
  ELSE Done(q, NotFound)

\* fetch, lines 23-37: after checkRateLimit returned
AfterRateLimit(q, limited, t) ==
  IF limited
  THEN Done([q EXCEPT !.limited = TRUE, !.resetTime = ResetTime(q.windowKey)],
            RateLimitResponse(ResetTime(q.windowKey), t))
  ELSE Route(q)

(***************************************************************************)
(* Initial state: a fresh worker instance, an empty table                  *)
(***************************************************************************)
Init ==
  /\ now = Instants[1]
  /\ useKV \in BOOLEAN
  /\ kv = <<>>
  /\ rateLimitStore = <<>>
  /\ items = {}
  /\ lastRowId = 0
  /\ req = [r \in Slots |-> Idle]
  /\ nreq = 0
  /\ hist = <<>>

\* The tables a worker instance may find: the database outlives the worker.
\* Rows 1 and 2 were created within the same second.
StoredRow(id, name, description) ==
  [id |-> id, name |-> name, description |-> description, created_at |-> 0]

InitialTables ==
  { {},
    {StoredRow(1, <<"a">>, Str(<<"d">>))},
    {StoredRow(1, <<"a">>, Str(<<"d">>)), StoredRow(2, <<"b">>, Null)} }

InitRepo ==
  /\ now = CoarseInstants[1]
  /\ useKV \in BOOLEAN
  /\ kv = <<>>
  /\ rateLimitStore = <<>>
  /\ items \in InitialTables
  /\ lastRowId = Cardinality(items)
  /\ req = [r \in Slots |-> Idle]
  /\ nreq = 0
  /\ hist = <<>>

(***************************************************************************)
(* The clock advances to the next instant; the durable store expires keys  *)
(***************************************************************************)
\* the positions at which the next step of a request reads the clock
\* (Date.now() of the 429 answer, the expiration of a put, CURRENT_TIMESTAMP)
ClockReaders == {"kv_get", "kv_put_new", "kv_put_inc", "post_insert"}

\* A step that does not read the clock commutes with the clock's advance, so
\* the clock advances only when some pending step reads it, or between requests.
ClockObserved ==
  /\ \A r \in Slots : req[r].pc # "done"
  /\ \/ \A r \in Slots : req[r].pc = "idle"
     \/ \E r \in Slots : req[r].pc \in ClockReaders

Tick(instants) ==
  /\ ClockObserved
  /\ \E i \in DOMAIN instants : instants[i] > now
  /\ now' = instants[CHOOSE i \in DOMAIN instants :
                       /\ instants[i] > now
                       /\ \A j \in DOMAIN instants : instants[j] > now => i <= j]
  /\ kv' = KvExpire(kv, now')
  /\ UNCHANGED <<useKV, rateLimitStore, items, lastRowId, req, nreq, hist>>

(***************************************************************************)
(* fetch: a request arrives and runs to its first suspension point         *)
(***************************************************************************)
\* (mutant) the limiter guards GET too
RateLimitedAnyMethod(q) == StartsWithApiItems(q.path)

\* line 22: the rate limiter guards every non-GET request on the API paths
RateLimited(q) == StartsWithApiItems(q.path) /\ q.method # "GET"

\* the request as fetch sees it on entry
Arrived(q) ==
  NewRequest(q, [items |-> items, kv |-> kv, rateLimitStore |-> rateLimitStore])

\* lines 82-89: the locals of checkRateLimit
Keyed(a) ==
  LET ip == ClientIP(a.headers)
      w == WindowKey(now)
  IN [a EXCEPT !.clientIP = ip, !.now0 = now, !.windowKey = w, !.checked = TRUE,
               !.before = HistOf(hist, <<a.headers, now \div 1000>>)]

KeyOf(q) == RateLimitKey(q.clientIP, q.windowKey)

\* The key of the history: the client as its headers identify it and the
\* window index floor(now / 1000) of the clock reading the request was given.
Observed(q) == <<q.headers, q.now0 \div 1000>>

\* (mutant) no preflight short-circuit: OPTIONS is routed like any method
PreflightRouted(r, q) ==
  /\ q.method = "OPTIONS"
  /\ req' = [req EXCEPT ![r] = Route(Arrived(q))]
  /\ UNCHANGED <<kv, rateLimitStore, hist>>

\* lines 14-19
Preflight(r, q) ==
  /\ q.method = "OPTIONS"
  /\ req' = [req EXCEPT ![r] = Done(Arrived(q), PreflightResponse)]
  /\ UNCHANGED <<kv, rateLimitStore, hist>>

\* the positions between the call of kv.get and the end of kv.put
KvPcs == {"kv_get", "kv_put_new", "kv_put_inc"}

\* the requests of a counter key that are between their kv.get and kv.put
Pending(key) == {s \in Slots : req[s].pc \in KvPcs /\ Observed(req[s]) = key}

\* lines 22-23 and 92-95: checkRateLimit on the durable store suspends on kv.get
StartKvCheck(r, q) ==
  /\ q.method # "OPTIONS" /\ RateLimited(q) /\ useKV
  /\ LET c == Keyed(Arrived(q)) IN
       /\ req' = [req EXCEPT ![r] = [c EXCEPT !.pc = "kv_get"]]
       /\ hist' = Overlapped(hist, Observed(c), Cardinality(Pending(Observed(c))) + 1)
  /\ UNCHANGED <<kv, rateLimitStore>>

\* lines 22-37 and 112-149: checkRateLimit on the in-memory store never
\* suspends; sweep is the outcome of Math.random() < 0.01
MemoryCheck(r, q) ==
  /\ q.method # "OPTIONS" /\ RateLimited(q) /\ ~useKV
  /\ LET c == Keyed(Arrived(q))
         m == MemCheck(rateLimitStore, KeyOf(c), now)
     IN IF m.limited
        THEN /\ rateLimitStore' = m.store
             /\ hist' = Rejected(hist, Observed(c), c.now0)
             /\ req' = [req EXCEPT ![r] = AfterRateLimit(c, TRUE, now)]
        ELSE \E sweep \in BOOLEAN :
               /\ rateLimitStore' = IF sweep THEN Sweep(m.store, now) ELSE m.store
               /\ hist' = Admitted(hist, Observed(c))
               /\ req' = [req EXCEPT ![r] = AfterRateLimit(c, FALSE, now)]
  /\ UNCHANGED kv

\* lines 22 and 39-70: a request the limiter does not guard
Unlimited(r, q) ==
  /\ q.method # "OPTIONS" /\ ~RateLimited(q)
  /\ req' = [req EXCEPT ![r] = Route(Arrived(q))]
  /\ UNCHANGED <<kv, rateLimitStore, hist>>

\* the slot a new request takes: the lowest one with no request in flight
FreeSlot(r) == req[r].pc = "idle" /\ \A s \in Slots : s < r => req[s].pc # "idle"

\* POST requests are taken while the AUTOINCREMENT sequence is below MaxRows
RowBudget(q) ==
  q.method = "POST" =>
    lastRowId + Cardinality({s \in Slots : InFlight(s) /\ req[s].method = "POST"}) < MaxRows

Receive(r, q, budget) ==
  /\ FreeSlot(r)
  /\ nreq < budget
  /\ RowBudget(q)
  /\ nreq' = nreq + 1
  /\ \/ Preflight(r, q)
     \/ StartKvCheck(r, q)
     \/ MemoryCheck(r, q)
     \/ Unlimited(r, q)
  /\ UNCHANGED <<now, useKV, items, lastRowId>>

\* requests handled one at a time
ReceiveSerial(r, q, budget) ==
  /\ \A s \in Slots : req[s].pc = "idle"
  /\ Receive(r, q, budget)

(***************************************************************************)
(* checkRateLimit on the durable store, one step per await                 *)
(***************************************************************************)
\* (mutant) an error of the backend rejects the request
FailClosed(r) ==
  /\ hist' = Faulted(hist, Observed(req[r]))
  /\ req' = [req EXCEPT ![r] = AfterRateLimit([req[r] EXCEPT !.backendFault = TRUE],
                                              TRUE, now)]
  /\ UNCHANGED kv

\* lines 150-154: any error of the backend is caught and the request allowed
FailOpen(r) ==
  /\ hist' = Faulted(hist, Observed(req[r]))
  /\ req' = [req EXCEPT ![r] = AfterRateLimit([req[r] EXCEPT !.backendFault = TRUE],
                                              FALSE, now)]
  /\ UNCHANGED kv

\* lines 95-108: kv.get resolves (or rejects)
KvGetStep(r) ==
  /\ req[r].pc = "kv_get"
  /\ \E fault \in BOOLEAN :
       IF fault THEN FailOpen(r)
       ELSE LET text == KvGet(kv, KeyOf(req[r])) IN
            IF text = <<>>
            THEN /\ req' = [req EXCEPT ![r].pc = "kv_put_new"]
                 /\ UNCHANGED <<kv, hist>>
            ELSE IF Saturated(ParseInt(text))
            THEN /\ req' = [req EXCEPT ![r] =
                              AfterRateLimit([req[r] EXCEPT !.currentCount = ParseInt(text)],
                                             TRUE, now)]
                 /\ hist' = Rejected(hist, Observed(req[r]), req[r].now0)
                 /\ UNCHANGED kv
            ELSE /\ req' = [req EXCEPT ![r].pc = "kv_put_inc",
                                       ![r].currentCount = ParseInt(text)]
                 /\ UNCHANGED <<kv, hist>>
  /\ UNCHANGED <<now, useKV, rateLimitStore, items, lastRowId, nreq>>

\* the put of a counter resolved: the request is allowed
KvPutDone(r, text) ==
  /\ kv' = KvPut(kv, KeyOf(req[r]), text, now)
  /\ hist' = Admitted(hist, Observed(req[r]))
  /\ req' = [req EXCEPT ![r] = AfterRateLimit(req[r], FALSE, now)]

\* lines 99-100: kv.put(rateLimitKey, '1', ...) resolves (or rejects)
KvPutNew(r) ==
  /\ req[r].pc = "kv_put_new"
  /\ \E fault \in BOOLEAN :
       IF fault THEN FailOpen(r) ELSE KvPutDone(r, <<"1">>)
  /\ UNCHANGED <<now, useKV, rateLimitStore, items, lastRowId, nreq>>

\* (mutant) the put is conditional on the count still being below the maximum
KvPutIncChecked(r) ==
  /\ req[r].pc = "kv_put_inc"
  /\ IF Saturated(ParseInt(KvGet(kv, KeyOf(req[r]))))
     THEN /\ req' = [req EXCEPT ![r] = AfterRateLimit(req[r], TRUE, now)]
          /\ hist' = Rejected(hist, Observed(req[r]), req[r].now0)
          /\ UNCHANGED kv
     ELSE KvPutDone(r, NumToString(req[r].currentCount + 1))
  /\ UNCHANGED <<now, useKV, rateLimitStore, items, lastRowId, nreq>>

\* line 110: kv.put(rateLimitKey, (currentCount + 1).toString(), ...)
KvPutInc(r) ==
  /\ req[r].pc = "kv_put_inc"
  /\ \E fault \in BOOLEAN :
       IF fault THEN FailOpen(r)
       ELSE KvPutDone(r, NumToString(req[r].currentCount + 1))
  /\ UNCHANGED <<now, useKV, rateLimitStore, items, lastRowId, nreq>>

(***************************************************************************)
(* handleItemsAPI, one step per database call                              *)
(***************************************************************************)
Called(q) == [q EXCEPT !.dbCalls = @ + 1]

\* (mutant) no outer catch: the fault escapes handleItemsAPI and fetch, and
\* the runtime answers in the worker's place
Uncaught(q) ==
  Done([Called(q) EXCEPT !.dbFault = TRUE],
       [Response(500, "uncaught", "") EXCEPT !.cors = FALSE])

\* lines 413-425: a fault outside the inner try blocks
Caught500(q) == Done([Called(q) EXCEPT !.dbFault = TRUE], InternalError)

\* lines 258-269 and 341-352: a fault inside the try block of POST and PUT
CaughtAsJsonError(q) == Done([Called(q) EXCEPT !.dbFault = TRUE], InvalidJson)

\* lines 171-186
GetOne(r) ==
  /\ req[r].pc = "get_one"
  /\ \E fault \in BOOLEAN :
       LET q == req[r]
           found == SelectById(items, IdOfSegment(q.id))
       IN req' = [req EXCEPT ![r] =
                    IF fault THEN Caught500(q)
                    ELSE IF found = {} THEN Done(Called(q), ItemNotFound)
                    ELSE Done(Called(q), ItemResponse(200, "item", found))]
  /\ UNCHANGED <<now, useKV, kv, rateLimitStore, items, lastRowId, nreq, hist>>

\* lines 195-196
ListCount(r) ==
  /\ req[r].pc = "list_count"
  /\ \E fault \in BOOLEAN :
       LET q == req[r] IN
       req' = [req EXCEPT ![r] =
                 IF fault THEN Caught500(q)
                 ELSE [Called(q) EXCEPT !.pc = "list_select", !.total = Cardinality(items)]]
  /\ UNCHANGED <<now, useKV, kv, rateLimitStore, items, lastRowId, nreq, hist>>

\* lines 190-192 and 199-216
ListSelect(r) ==
  /\ req[r].pc = "list_select"
  /\ \E fault \in BOOLEAN, o \in Orderings(items) :
       LET q == req[r]
           page == QueryInt(q.page, 1)
           limit == QueryInt(q.limit, 10)
           offset == (page - 1) * limit
       IN req' = [req EXCEPT ![r] =
                    IF fault THEN Caught500(q)
                    ELSE Done(Called(q),
                              [Response(200, "list", "")
                                 EXCEPT !.list = LimitOffset(o, limit, offset),
                                        !.page = page, !.limit = limit,
                                        !.total = q.total,
                                        !.pages = Pages(q.total, limit)])]
  /\ UNCHANGED <<now, useKV, kv, rateLimitStore, items, lastRowId, nreq, hist>>

\* lines 238-240
PostInsert(r) ==
  /\ req[r].pc = "post_insert"
  /\ \E fault \in BOOLEAN :
       LET q == req[r] IN
       IF fault
       THEN /\ req' = [req EXCEPT ![r] = CaughtAsJsonError(q)]
            /\ UNCHANGED <<items, lastRowId>>
       ELSE /\ items' = InsertRow(items, lastRowId + 1, q.name, q.description, now)
            /\ lastRowId' = lastRowId + 1
            /\ req' = [req EXCEPT ![r] = [Called(q) EXCEPT !.pc = "post_readback",
                                                           !.newId = lastRowId + 1]]
  /\ UNCHANGED <<now, useKV, kv, rateLimitStore, nreq, hist>>

\* lines 243-257
PostReadback(r) ==
  /\ req[r].pc = "post_readback"
  /\ \E fault \in BOOLEAN :
       LET q == req[r] IN
       req' = [req EXCEPT ![r] =
                 IF fault THEN CaughtAsJsonError(q)
                 ELSE Done(Called(q),
                           ItemResponse(201, "created", SelectById(items, q.newId)))]
  /\ UNCHANGED <<now, useKV, kv, rateLimitStore, items, lastRowId, nreq, hist>>

\* lines 304-324: the existence check of PUT, then the arguments of the UPDATE
PutSelect(r) ==
  /\ req[r].pc = "put_select"
  /\ \E fault \in BOOLEAN :
       LET q == req[r]
           found == SelectById(items, IdOfSegment(q.id))
       IN req' = [req EXCEPT ![r] =
                    IF fault THEN CaughtAsJsonError(q)
                    ELSE IF found = {} THEN Done(Called(q), ItemNotFound)
                    ELSE IF DescriptionThrows(q.body) THEN Done(Called(q), InvalidJson)
                    ELSE [Called(q) EXCEPT !.pc = "put_update", !.existing = found,
                                           !.name = BoundName(q.body),
                                           !.description = BoundDescription(q.body)]]
  /\ UNCHANGED <<now, useKV, kv, rateLimitStore, items, lastRowId, nreq, hist>>

\* lines 322-324
PutUpdate(r) ==
  /\ req[r].pc = "put_update"
  /\ \E fault \in BOOLEAN :
       LET q == req[r] IN
       IF fault
       THEN /\ req' = [req EXCEPT ![r] = CaughtAsJsonError(q)]
            /\ UNCHANGED items
       ELSE /\ items' = UpdateRow(items, IdOfSegment(q.id), q.name, q.description)
            /\ req' = [req EXCEPT ![r] = [Called(q) EXCEPT !.pc = "put_readback"]]
  /\ UNCHANGED <<now, useKV, kv, rateLimitStore, lastRowId, nreq, hist>>

\* lines 327-340
PutReadback(r) ==
  /\ req[r].pc = "put_readback"
  /\ \E fault \in BOOLEAN :
       LET q == req[r] IN
       req' = [req EXCEPT ![r] =
                 IF fault THEN CaughtAsJsonError(q)
                 ELSE Done(Called(q),
                           ItemResponse(200, "updated",
                                        SelectById(items, IdOfSegment(q.id))))]
  /\ UNCHANGED <<now, useKV, kv, rateLimitStore, items, lastRowId, nreq, hist>>

\* lines 370-385
DelSelect(r) ==
  /\ req[r].pc = "del_select"
  /\ \E fault \in BOOLEAN :
       LET q == req[r]
           found == SelectById(items, IdOfSegment(q.id))
       IN req' = [req EXCEPT ![r] =
                    IF fault THEN Caught500(q)
                    ELSE IF found = {} THEN Done(Called(q), ItemNotFound)
                    ELSE [Called(q) EXCEPT !.pc = "del_delete", !.existing = found]]
  /\ UNCHANGED <<now, useKV, kv, rateLimitStore, items, lastRowId, nreq, hist>>

\* lines 388-399
DelDelete(r) ==
  /\ req[r].pc = "del_delete"
  /\ \E fault \in BOOLEAN :
       LET q == req[r] IN
       IF fault
       THEN /\ req' = [req EXCEPT ![r] = Caught500(q)]
            /\ UNCHANGED items
       ELSE /\ items' = DeleteRow(items, IdOfSegment(q.id))
            /\ req' = [req EXCEPT ![r] =
                         Done(Called(q), ItemResponse(200, "deleted", q.existing))]
  /\ UNCHANGED <<now, useKV, kv, rateLimitStore, lastRowId, nreq, hist>>

\* the response leaves the worker and the slot is free again
Respond(r) ==
  /\ req[r].pc = "done"
  /\ req' = [req EXCEPT ![r] = Idle]
  /\ UNCHANGED <<now, useKV, kv, rateLimitStore, items, lastRowId, nreq, hist>>

(***************************************************************************)
(* Specifications                                                          *)
(***************************************************************************)
\* a step of the request in slot r
Step(r) ==
  \/ KvGetStep(r)
  \/ KvPutNew(r)
  \/ KvPutInc(r)
  \/ GetOne(r)
  \/ ListCount(r)
  \/ ListSelect(r)
  \/ PostInsert(r)
  \/ PostReadback(r)
  \/ PutSelect(r)
  \/ PutUpdate(r)
  \/ PutReadback(r)
  \/ DelSelect(r)
  \/ DelDelete(r)
  \/ Respond(r)

\* Admission control: requests of two clients handled one at a time
NextSerial ==
  \/ Tick(Instants)
  \/ \E r \in Slots, q \in LimiterInputs : ReceiveSerial(r, q, MaxRequests)
  \/ \E r \in Slots : Step(r)

SpecSerial == Init /\ [][NextSerial]_vars

\* Repository: requests of every path and body handled one at a time
NextRepo ==
  \/ Tick(CoarseInstants)
  \/ \E r \in Slots, q \in RepoInputs : ReceiveSerial(r, q, MaxRepoRequests)
  \/ \E r \in Slots : Step(r)

SpecRepo == InitRepo /\ [][NextRepo]_vars

\* a database call of a create or a delete returns
WriteStep(r) ==
  \/ PostInsert(r)
  \/ PostReadback(r)
  \/ DelSelect(r)
  \/ DelDelete(r)

\* a database call of a request on one item returns
ItemStep(r) ==
  \/ GetOne(r)
  \/ PutSelect(r)
  \/ PutUpdate(r)
  \/ PutReadback(r)
  \/ WriteStep(r)

\* a database call of a list request, a create or a delete returns
ListStep(r) ==
  \/ ListCount(r)
  \/ ListSelect(r)
  \/ WriteStep(r)

\* a database call of the request in slot r returns
DbStep(r) == ItemStep(r) \/ ListStep(r)

\* a database call of the request in slot r returns, or its response leaves
RepoStep(r) == DbStep(r) \/ Respond(r)

\* a worker with no RATE_LIMIT_KV binding: checkRateLimit never suspends
InitConc == InitRepo /\ ~useKV

\* Repository: requests in flight together, their database calls interleaved
NextConc ==
  \/ \E r \in Slots, q \in ConcInputs : Receive(r, q, MaxConcRequests)
  \/ \E r \in Slots : RepoStep(r)

SpecConc == InitConc /\ [][NextConc]_vars

\* the clock advances to the next instant between two requests
TickIdle(instants) ==
  /\ \A r \in Slots : ~InFlight(r)
  /\ \E i \in DOMAIN instants : instants[i] > now
  /\ now' = instants[CHOOSE i \in DOMAIN instants :
                       /\ instants[i] > now
                       /\ \A j \in DOMAIN instants : instants[j] > now => i <= j]
  /\ kv' = KvExpire(kv, now')
  /\ UNCHANGED <<useKV, rateLimitStore, items, lastRowId, req, nreq, hist>>

\* a request arrives after the one before it was answered; the answered
\* requests stay in their slots, in the order of their arrival
ReceiveNext(r, q) ==
  /\ \A s \in Slots : ~InFlight(s)
  /\ Receive(r, q, MaxSeqRequests)

\* Repository: a client's requests one after another, each answer kept
NextSeq ==
  \/ TickIdle(CoarseInstants)
  \/ \E r \in Slots, q \in SeqInputs : ReceiveNext(r, q)
  \/ \E r \in Slots : ItemStep(r)

SpecSeq == InitConc /\ [][NextSeq]_vars

\* Repository: list requests between creates and deletes, each answer kept
NextList ==
  \/ TickIdle(CoarseInstants)
  \/ \E r \in Slots, q \in ListInputs : ReceiveNext(r, q)
  \/ \E r \in Slots : ListStep(r)

SpecList == InitConc /\ [][NextList]_vars

\* Writes without an id: answered 400 as soon as checkRateLimit admitted them
RaceInputs ==
  {Request("PUT", <<"api", "items">>, h, Obj(Str(<<"b">>), Undef), <<>>, <<>>) :
     h \in Headers}

BurstInputs ==
  {Request("DELETE", <<"api", "items">>, ClientA, NoBody, <<>>, <<>>)}

\* an await of checkRateLimit on the durable store returns, or a response leaves
KvStep(r) ==
  \/ KvGetStep(r)
  \/ KvPutNew(r)
  \/ KvPutInc(r)
  \/ Respond(r)

\* Admission control: requests of two clients in flight together, the awaits
\* of checkRateLimit interleaved
NextRace ==
  \/ Tick(CoarseInstants)
  \/ \E r \in Slots, q \in RaceInputs : Receive(r, q, MaxRaceRequests)
  \/ \E r \in Slots : KvStep(r)

SpecRace == Init /\ [][NextRace]_vars

\* a worker with the RATE_LIMIT_KV binding
InitBurst == Init /\ useKV

\* Admission control: a burst of writes of one client within one window
NextBurst ==
  \/ \E r \in Slots, q \in BurstInputs : Receive(r, q, MaxBurstRequests)
  \/ \E r \in Slots : KvStep(r)

SpecBurst == InitBurst /\ [][NextBurst]_vars

\* Admission control: writes handled one at a time while the clock runs past
\* the expiry of the counters
NextExpiry ==
  \/ Tick(LateInstants)
  \/ \E r \in Slots, q \in RaceInputs : ReceiveSerial(r, q, MaxExpiryRequests)
  \/ \E r \in Slots : KvStep(r)

SpecExpiry == Init /\ [][NextExpiry]_vars

\* Deletes of row 1 by two clients: each suspends on its two database calls
MemInputs ==
  {Request("DELETE", <<"api", "items", "1">>, h, NoBody, <<>>, <<>>) : h \in Headers}

\* a database call of a delete returns, or its response leaves
DelStep(r) ==
  \/ DelSelect(r)
  \/ DelDelete(r)
  \/ Respond(r)

\* Admission control on the in-memory store while earlier requests are
\* suspended in handleItemsAPI
NextMem ==
  \/ Tick(CoarseInstants)
  \/ \E r \in Slots, q \in MemInputs : Receive(r, q, MaxMemRequests)
  \/ \E r \in Slots : DelStep(r)

SpecMem == InitConc /\ [][NextMem]_vars

\* The in-memory store once the clock is beyond the expiry of every entry,
\* with times measured from the new origin: each client's entries are in a
\* past window (-1) and past their expiry (-1)
Aged(store) ==
  [k \in {<<key[1], -1>> : key \in DOMAIN store} |->
     [count |-> LET counts == {store[key].count :
                                 key \in {x \in DOMAIN store : x[1] = k[1]}}
                IN CHOOSE c \in counts : \A d \in counts : d <= c,
      expires |-> -1]]

\* The clock never stops: after the last instant of the schedule it is beyond
\* every stored expiry, and the schedule starts again from there
NewEpoch ==
  /\ \A i \in DOMAIN SweepInstants : SweepInstants[i] <= now
  /\ \A r \in Slots : req[r].pc = "idle"
  /\ now' = SweepInstants[1]
  /\ rateLimitStore' = Aged(rateLimitStore)
  /\ nreq' = 0
  /\ hist' = <<>>
  /\ UNCHANGED <<useKV, kv, items, lastRowId, req>>

\* Admission control on the in-memory store: writes one at a time, for ever
NextSweep ==
  \/ Tick(SweepInstants)
  \/ NewEpoch
  \/ \E r \in Slots, q \in RaceInputs : ReceiveSerial(r, q, MaxSweepRequests)
  \/ \E r \in Slots : Respond(r)

\* the entries of the in-memory store past their expiry
Expired == {key \in DOMAIN rateLimitStore : rateLimitStore[key].expires < now}

\* an admitted write whose Math.random() < 0.01 holds while entries are expired
SweepingAccess ==
  /\ \E r \in Slots, q \in RaceInputs : ReceiveSerial(r, q, MaxSweepRequests)
  /\ \E key \in Expired : key \notin DOMAIN rateLimitStore'

\* time advances, responses leave, writes keep arriving and the random
\* choice of the cleanup is fair
FairSweep ==
  /\ WF_vars(Tick(SweepInstants))
  /\ WF_vars(NewEpoch)
  /\ WF_vars(\E r \in Slots : Respond(r))
  /\ SF_vars(SweepingAccess)

SpecSweep == InitConc /\ [][NextSweep]_vars /\ FairSweep

(***************************************************************************)
(* Properties                                                              *)
(***************************************************************************)
Active(r) == req[r].pc # "idle"
Finished(r) == req[r].pc = "done"

\* checkRateLimit was called for the request and has returned
Decided(r) ==
  /\ req[r].pc \notin {"idle", "kv_get", "kv_put_new", "kv_put_inc"}
  /\ req[r].checked

\* the count stored for a client and a window index in the active backend
Counter(ip, w) ==
  IF useKV
  THEN IF <<ip, w>> \in DOMAIN kv THEN ParseInt(kv[<<ip, w>>].value) ELSE 0
  ELSE IF <<ip, w>> \in DOMAIN rateLimitStore THEN rateLimitStore[<<ip, w>>].count ELSE 0

\* the client identifier of a request: the address header, or "anonymous"
ClientOf(r) == IF req[r].headers = Anonymous THEN "anonymous" ELSE "A"

\* the request left the table and both counter stores as it found them
TableUntouched(r) == items = req[r].pre.items
CountersUntouched(r) ==
  kv = req[r].pre.kv /\ rateLimitStore = req[r].pre.rateLimitStore

\* C1: with requests handled one at a time and no backend error for a client
\* and window index, at most MAX_REQUESTS_PER_WINDOW non-GET requests of that
\* client are admitted in that window, and every further one is answered 429.
C1_AtMostMaxPerWindow ==
  /\ \A key \in DOMAIN hist :
       ~hist[key].faulted => hist[key].admitted <= 2
  /\ \A r \in Slots :
       (/\ Finished(r) /\ req[r].checked
        /\ ~req[r].backendFault /\ ~req[r].before.faulted
        /\ req[r].before.admitted >= 2)
         => req[r].resp.status = 429

C1_Witness ==
  \E r \in Slots :
    /\ Finished(r) /\ req[r].checked /\ req[r].resp.status = 429
    /\ ~req[r].before.faulted /\ req[r].before.admitted = 2
    /\ items # {}

\* C2: the first non-GET request of a client in a window index is admitted and
\* leaves that window's counter at 1, whatever is stored for earlier windows;
\* without backend errors a request is rejected exactly when two requests of
\* its client and window were admitted before (allow, allow, reject, and allow
\* again in the next window).
C2_FreshWindowAdmitted ==
  \A r \in Slots :
    Decided(r) =>
      /\ (req[r].before.admitted = 0 /\ req[r].before.rejectedAt = -1) =>
           /\ ~req[r].limited
           /\ ~req[r].backendFault =>
                Counter(ClientOf(r), req[r].now0 \div 1000) = 1
      /\ (~req[r].backendFault /\ ~req[r].before.faulted) =>
           /\ req[r].limited <=> req[r].before.admitted >= 2
           /\ ~req[r].limited =>
                Counter(ClientOf(r), req[r].now0 \div 1000) = req[r].before.admitted + 1

C2_Witness ==
  \E r \in Slots :
    /\ Finished(r) /\ Decided(r) /\ req[r].headers = ClientA
    /\ req[r].now0 = 1050 /\ ~req[r].limited /\ ~req[r].backendFault
    /\ ~useKV
    /\ Counter("A", 1) = 1
    /\ Counter("A", 0) = 2
    /\ rateLimitStore[<<"A", 0>>].expires = 2000
    /\ HistOf(hist, <<ClientA, 0>>).rejectedAt = 400

\* C3: a request whose counter lookup or write-back raised an error is
\* allowed: it is handed to handleItemsAPI and is not answered 429, nor 500
\* unless the database itself fails.
C3_FailOpen ==
  \A r \in Slots :
    (Active(r) /\ req[r].backendFault) =>
      /\ Decided(r) /\ ~req[r].limited /\ req[r].routed
      /\ Finished(r) =>
           /\ req[r].resp.status # 429
           /\ req[r].resp.status = 500 => req[r].dbFault

C3_Witness ==
  \E r \in Slots :
    /\ Finished(r) /\ req[r].backendFault
    /\ req[r].before.admitted >= 2
    /\ Counter(ClientOf(r), req[r].now0 \div 1000) >= 2
    /\ req[r].resp.status = 200

\* C4: a GET request never enters checkRateLimit, is never answered 429,
\* leaves both counter stores as it found them and, on the API paths, is
\* handed to handleItemsAPI.
C4_GetNeverLimited ==
  \A r \in Slots :
    (Active(r) /\ req[r].method = "GET") =>
      /\ ~req[r].checked /\ ~req[r].limited
      /\ CountersUntouched(r)
      /\ StartsWithApiItems(req[r].path) => req[r].routed
      /\ Finished(r) => req[r].resp.status # 429

C4_Witness ==
  \E r \in Slots :
    /\ Finished(r) /\ req[r].method = "GET" /\ req[r].path = <<"api", "items", "1">>
    /\ req[r].resp.status = 200
    /\ Counter(ClientOf(r), now \div 1000) >= 2

\* C5: an OPTIONS request is answered at once with status 200, the CORS
\* headers and an empty body; it enters neither checkRateLimit nor
\* handleItemsAPI and leaves the counter stores and the table untouched.
C5_PreflightShortCircuit ==
  \A r \in Slots :
    (Active(r) /\ req[r].method = "OPTIONS") =>
      /\ Finished(r)
      /\ req[r].resp.status = 200 /\ req[r].resp.kind = "empty" /\ req[r].resp.cors
      /\ ~req[r].checked /\ ~req[r].routed /\ req[r].dbCalls = 0
      /\ CountersUntouched(r) /\ TableUntouched(r)

C5_Witness ==
  \E r \in Slots :
    /\ Finished(r) /\ req[r].method = "OPTIONS" /\ req[r].path = <<"api", "itemsX">>
    /\ Counter(ClientOf(r), now \div 1000) >= 2
    /\ items # {}

\* C6: a rejected request is answered 429 with the rate-limit body and has no
\* other effect: handleItemsAPI is not entered, no database call is made, the
\* table and both counter stores are as the request found them.
C6_RejectionHasNoEffect ==
  \A r \in Slots :
    (Active(r) /\ req[r].limited) =>
      /\ Finished(r)
      /\ req[r].resp.status = 429 /\ req[r].resp.kind = "rate_limit"
      /\ req[r].resp.error = "Rate limit exceeded"
      /\ ~req[r].routed /\ req[r].dbCalls = 0 /\ ~req[r].bodyRead
      /\ TableUntouched(r) /\ CountersUntouched(r)

C6_Witness ==
  \E r \in Slots :
    /\ Finished(r) /\ req[r].limited /\ req[r].method = "POST"
    /\ items # {}

\* C7: on every rejection the reported delay is that of the clock reading the
\* window index was computed from: retryAfter = ceil(((windowIndex + 1) * 1000
\* - now) / 1000), which is at least 1.
C7_RetryAfterFromSameReading ==
  \A r \in Slots :
    (Finished(r) /\ req[r].limited) =>
      /\ req[r].resp.retryAfter
           = CeilDiv((req[r].now0 \div 1000 + 1) * 1000 - req[r].now0, 1000)
      /\ req[r].resp.retryAfter >= 1

\* checkRateLimit allowed the request
Allowed(r) == Decided(r) /\ ~req[r].limited

\* a name with no character other than white space: absent, empty or blank
NoVisibleChar(v) ==
  \/ v.t = "undefined"
  \/ v.t = "string" /\ \A i \in DOMAIN v.s : v.s[i] \in {" ", "\t"}

\* a well-formed body whose name is a string with a visible character
ValidName(b) ==
  /\ b.kind = "object" /\ b.name.t = "string"
  /\ \E i \in DOMAIN b.name.s : b.name.s[i] \notin {" ", "\t"}

\* the request is a create or an update on the API paths
CreateOrUpdate(r) ==
  req[r].method \in {"POST", "PUT"} /\ StartsWithApiItems(req[r].path)

\* the rows the request's path addresses, in the table as the request found it
Addressed(r) ==
  IF Len(req[r].path) = 3
  THEN {row \in req[r].pre.items : row.id = IdOfSegment(req[r].path[3])}
  ELSE {}

\* C8: an admitted create or update whose name is absent or blank is answered
\* 400 without a database call, and the table is as the request found it,
\* whether or not the addressed id exists.
C8_BlankNameRejected ==
  \A r \in Slots :
    (/\ Active(r) /\ CreateOrUpdate(r) /\ Allowed(r)
     /\ req[r].body.kind = "object" /\ NoVisibleChar(req[r].body.name))
      => /\ Finished(r)
         /\ req[r].resp.status = 400
         /\ req[r].dbCalls = 0
         /\ TableUntouched(r)

C8_Witness ==
  \E r \in Slots :
    /\ Finished(r) /\ req[r].method = "PUT" /\ Allowed(r)
    /\ req[r].body = Obj(Str(<<" ", "\t">>), Undef)
    /\ Addressed(r) # {}
    /\ req[r].resp.status = 400 /\ req[r].resp.error = "Name is required"

AskedDescription(b) ==
  IF b.description.t = "string" /\ b.description.s # <<>>
  THEN Str(Trim(b.description.s)) ELSE Null

\* C11: every create answered 201 and every update answered 200 carries a row
\* (never null) with the request's trimmed name and its trimmed description or
\* null, also when requests of other clients run between the write and the
\* read-back.
C11_WriteAnswerCarriesRow ==
  \A r \in Slots :
    (/\ Finished(r) /\ CreateOrUpdate(r)
     /\ req[r].resp.status \in {200, 201})
      => /\ req[r].resp.item # {}
         /\ \A row \in req[r].resp.item :
              /\ row.name = Trim(req[r].body.name.s)
              /\ row.description = AskedDescription(req[r].body)

\* In a run that keeps every answer the slots are taken in the order of
\* arrival: the request after slot r, if any, is in slot r + 1.
IsLast(r) == \A s \in Slots : s > r => ~Active(s)

\* the table the request in slot r left behind
TableAfter(r) == IF IsLast(r) THEN items ELSE req[r + 1].pre.items

\* every request between slots r and s is a read
OnlyReadsBetween(r, s) ==
  \A t \in Slots : (r < t /\ t < s) => req[t].method = "GET"

\* a GET of one item that was answered without a storage fault
GotOne(s) ==
  /\ Finished(s) /\ req[s].method = "GET" /\ Len(req[s].path) = 3
  /\ ~req[s].dbFault

\* C12: a create answered 201 followed by a GET of the returned id, with no
\* write between them, returns the created row: the same id, the trimmed name,
\* the trimmed description or null, and the created_at of the insert.
C12_CreateThenGet ==
  \A r, s \in Slots :
    (/\ r < s /\ Finished(r) /\ req[r].method = "POST" /\ req[r].resp.status = 201
     /\ GotOne(s) /\ OnlyReadsBetween(r, s)
     /\ \E row \in req[r].resp.item : IdOfSegment(req[s].path[3]) = row.id)
      => /\ req[s].resp.status = 200
         /\ req[s].resp.item # {}
         /\ req[s].resp.item = req[r].resp.item
         /\ \A row \in req[s].resp.item :
              /\ row.id = IdOfSegment(req[s].path[3])
              /\ row.name = Trim(req[r].body.name.s)
              /\ row.description = AskedDescription(req[r].body)
              /\ row.created_at >= req[r].now0 \div 1000
              /\ row.created_at <= now \div 1000

C12_Witness ==
  \E r, s \in Slots :
    /\ r < s /\ Finished(r) /\ req[r].method = "POST" /\ req[r].resp.status = 201
    /\ req[r].body = Obj(Str(<<" ", "a", " ">>), Str(<<" ", "d", " ">>))
    /\ GotOne(s) /\ req[s].resp.status = 200
    /\ \E row \in req[s].resp.item :
         /\ row \in req[r].resp.item
         /\ row.name = <<"a">> /\ row.description = Str(<<"d">>)
         /\ row.created_at = 1

\* C13: an admitted DELETE of an existing id, with requests handled one at a
\* time and no storage fault, is answered 200 with the row as it was before the
\* request; afterwards the row is gone, every other row is unchanged, and a
\* later GET of the id is answered 404.
C13_DeleteExisting ==
  \A r \in Slots :
    (/\ Finished(r) /\ req[r].method = "DELETE" /\ Allowed(r)
     /\ Addressed(r) # {} /\ ~req[r].dbFault)
      => /\ req[r].resp.status = 200
         /\ req[r].resp.kind = "deleted"
         /\ req[r].resp.item = Addressed(r)
         /\ TableAfter(r) = req[r].pre.items \ Addressed(r)
         /\ \A s \in Slots :
              (r < s /\ GotOne(s) /\ req[s].path = req[r].path)
                => req[s].resp.status = 404

C13_Witness ==
  \E r, s \in Slots :
    /\ r < s /\ Finished(r) /\ req[r].method = "DELETE"
    /\ req[r].resp.status = 200 /\ Cardinality(req[r].pre.items) = 2
    /\ Cardinality(TableAfter(r)) = 1
    /\ GotOne(s) /\ req[s].path = req[r].path /\ req[s].resp.status = 404

\* C17: a GET of an id leaves the table and the counter stores as it found
\* them, and two GETs of the same id with only reads between them, neither
\* meeting a storage fault, are answered with the same status and payload.
C17_GetIdempotent ==
  \A r \in Slots :
    (Finished(r) /\ req[r].method = "GET" /\ Len(req[r].path) = 3)
      => /\ TableAfter(r) = req[r].pre.items
         /\ IF IsLast(r) THEN CountersUntouched(r)
            ELSE /\ req[r + 1].pre.kv = req[r].pre.kv
                 /\ req[r + 1].pre.rateLimitStore = req[r].pre.rateLimitStore
         /\ ~req[r].checked
         /\ \A s \in Slots :
              (/\ r < s /\ GotOne(r) /\ GotOne(s) /\ req[s].path = req[r].path
               /\ OnlyReadsBetween(r, s))
                => req[s].resp = req[r].resp

C17_Witness ==
  \E r, s \in Slots :
    /\ r < s /\ GotOne(r) /\ GotOne(s) /\ req[s].path = req[r].path
    /\ req[r].resp.status = 200 /\ req[s].resp = req[r].resp
    /\ Cardinality(req[r].pre.items) = 2
    /\ \E row \in req[s].resp.item : row.id = 2

\* a body the handler cannot use: not an object, or a name or description
\* that is neither absent nor a string
Unusable(b) ==
  \/ b.kind # "object"
  \/ b.name.t \notin {"undefined", "string"}
  \/ b.description.t \notin {"undefined", "string"}

\* C14: a request one of whose storage calls raised a fault is answered 500
\* "Internal server error", never 400; a 400 is only the answer to a PUT or
\* DELETE without id, to an absent or blank name, or to an unusable body.
C14_StorageFaultIs500 ==
  \A r \in Slots :
    Finished(r) =>
      /\ req[r].dbFault =>
           /\ req[r].resp.status = 500
           /\ req[r].resp.error = "Internal server error"
      /\ req[r].resp.status = 400 =>
           \/ req[r].method \in {"PUT", "DELETE"} /\ Len(req[r].path) # 3
           \/ /\ req[r].method \in {"POST", "PUT"}
              /\ \/ Unusable(req[r].body)
                 \/ NoVisibleChar(req[r].body.name)

\* a list request that was answered without a storage fault
Listed(r) ==
  /\ Finished(r) /\ req[r].method = "GET" /\ req[r].path = <<"api", "items">>
  /\ ~req[r].dbFault

\* the integer a query parameter of the list requests stands for
Asked(text, fallback) ==
  CASE text = <<"1">> -> 1
    [] text = <<"2">> -> 2
    [] text = <<"3">> -> 3
    [] OTHER -> fallback

Least(a, b) == IF a < b THEN a ELSE b
Greatest(a, b) == IF a > b THEN a ELSE b

C16_ListOrderDeterministic ==
  \A r \in Slots :
    Listed(r) =>
      /\ \A i, j \in DOMAIN req[r].resp.list :
           i < j =>
             LET a == req[r].resp.list[i]
                 b == req[r].resp.list[j]
             IN \/ a.created_at > b.created_at
                \/ a.created_at = b.created_at /\ a.id > b.id
      /\ \A s \in Slots :
           (/\ r < s /\ Listed(s) /\ OnlyReadsBetween(r, s)
            /\ req[s].page = req[r].page /\ req[s].limit = req[r].limit)
             => req[s].resp.list = req[r].resp.list

\* the path is exactly /api/items or /api/items/{id}
ItemsPath(p) ==
  /\ Len(p) \in {2, 3}
  /\ p[1] = "api" /\ p[2] = "items"

\* the path of the HTML page or of the schema file
PagePath(p) == p = <<>> \/ p = <<"schema.sql">>

\* C18: a request on /api/items or /api/items/{id} with a method other than
\* GET, POST, PUT, DELETE and OPTIONS is answered 405 in every state and
\* changes neither the table nor any counter.
C18_OtherMethod405 ==
  \A r \in Slots :
    (/\ Active(r) /\ ItemsPath(req[r].path)
     /\ req[r].method \notin {"GET", "POST", "PUT", "DELETE", "OPTIONS"})
      => /\ Finished(r) => /\ req[r].resp.status = 405
                           /\ req[r].resp.error = "Method not allowed"
         /\ TableUntouched(r)
         /\ CountersUntouched(r)
         /\ ~req[r].checked

\* C19: a request other than OPTIONS whose path is neither /api/items nor
\* /api/items/{id} (nor the HTML page or the schema file) is answered 404
\* "Not found" without reaching the repository, the table or the counters.
C19_OnlyExactPathsDispatched ==
  \A r \in Slots :
    (/\ Active(r) /\ req[r].method # "OPTIONS"
     /\ ~ItemsPath(req[r].path) /\ ~PagePath(req[r].path))
      => /\ Finished(r)
         /\ req[r].resp.status = 404 /\ req[r].resp.error = "Not found"
         /\ ~req[r].routed /\ ~req[r].checked /\ req[r].dbCalls = 0
         /\ TableUntouched(r)
         /\ CountersUntouched(r)

C21_IdRequired ==
  \A r \in Slots :
    (/\ Active(r) /\ req[r].method \in {"PUT", "DELETE"}
     /\ StartsWithApiItems(req[r].path) /\ Len(req[r].path) # 3
     /\ Allowed(r))
      => /\ Finished(r)
         /\ req[r].resp.status = 400 /\ req[r].resp.error = "ID is required"
         /\ ~req[r].bodyRead /\ req[r].dbCalls = 0
         /\ TableUntouched(r)

C21_Witness ==
  \E r \in Slots :
    /\ Finished(r) /\ req[r].method = "PUT" /\ Allowed(r)
    /\ req[r].path = <<"api", "items", "1", "x">>
    /\ req[r].body = Obj(Str(<<"b">>), Undef)
    /\ req[r].pre.items # {}
    /\ req[r].resp.error = "ID is required"

\* C22: requests without an address header are counted under the one key
\* "anonymous": with two of them admitted in a window and no backend error a
\* further one is rejected, and the requests of an identified client are
\* decided by that client's own count alone.
C22_AnonymousBucket ==
  \A r \in Slots :
    (Decided(r) /\ ~req[r].backendFault /\ ~req[r].before.faulted) =>
      /\ req[r].headers = Anonymous =>
           /\ req[r].clientIP = "anonymous"
           /\ req[r].before.admitted >= 2 => req[r].limited
      /\ req[r].headers # Anonymous =>
           /\ req[r].clientIP # "anonymous"
           /\ req[r].before.admitted < 2 => ~req[r].limited

C22_Witness ==
  \E r \in Slots :
    /\ Finished(r) /\ Decided(r) /\ req[r].headers = ClientA
    /\ ~req[r].limited /\ ~req[r].backendFault
    /\ req[r].before.admitted = 0
    /\ req[r].now0 \div 1000 = 0
    /\ HistOf(hist, <<Anonymous, 0>>).admitted = 2
    /\ HistOf(hist, <<Anonymous, 0>>).rejectedAt >= 0
    /\ Counter("anonymous", 0) = 2

\* C23: an update answered 200 leaves the id and created_at of its row and
\* every other row as they were, and stores the trimmed name and description;
\* no request changes the id or created_at of a row that stays in the table,
\* and no two rows share an id.
C23_UpdateFrame ==
  /\ \A a, b \in items : a.id = b.id => a = b
  /\ \A r \in Slots :
       Active(r) =>
         /\ \A old \in req[r].pre.items :
              \A new \in items : new.id = old.id => new.created_at = old.created_at
         /\ (Finished(r) /\ req[r].method = "PUT" /\ req[r].resp.status = 200) =>
              /\ Cardinality(items) = Cardinality(req[r].pre.items)
              /\ \A old \in req[r].pre.items :
                   IF old \in Addressed(r)
                   THEN [old EXCEPT !.name = Trim(req[r].body.name.s),
                                    !.description = AskedDescription(req[r].body)]
                          \in items
                   ELSE old \in items

C23_Witness ==
  \E r \in Slots :
    /\ Finished(r) /\ req[r].method = "PUT" /\ req[r].resp.status = 200
    /\ Cardinality(req[r].pre.items) = 2
    /\ req[r].body = Obj(Str(<<"b">>), Str(<<" ">>))
    /\ req[r].path = <<"api", "items", "1">>
    /\ items # req[r].pre.items

\* the requests of a client and window that checkRateLimit allowed on the
\* durable store without a backend error
AllowedOn(h, w) ==
  {r \in Slots : /\ Decided(r) /\ ~req[r].limited /\ ~req[r].backendFault
                 /\ req[r].headers = h /\ req[r].windowKey = w}

\* C24: on the durable store a request is allowed or rejected on the count its
\* kv.get returned, whatever is stored when its kv.put ends; so three writes of
\* one client that are in flight together in one window are all admitted.
C24_DecidedOnCountRead ==
  \A r \in Slots :
    (Decided(r) /\ useKV /\ ~req[r].backendFault) =>
      (req[r].limited <=> Saturated(req[r].currentCount))

C24_Witness ==
  /\ useKV
  /\ Cardinality(AllowedOn(ClientA, 0)) = 3
  /\ HistOf(hist, <<ClientA, 0>>).admitted = 3
  /\ ~HistOf(hist, <<ClientA, 0>>).faulted
  /\ HistOf(hist, <<ClientA, 0>>).inFlight = 3
  /\ now = 0

\* C25: on the durable store, for every client and window without a backend
\* error, the number of admitted writes exceeds MAX_REQUESTS_PER_WINDOW by at
\* most the largest number of the client's requests that were between their
\* kv.get and their kv.put at the same time.
C25_ExcessBoundedByInFlight ==
  useKV =>
    \A key \in DOMAIN hist :
      ~hist[key].faulted =>
        hist[key].admitted <= MAX_REQUESTS_PER_WINDOW + hist[key].inFlight

\* the count of a stored counter, in either backend
CountIn(store, key) ==
  IF useKV THEN ParseInt(store[key].value) ELSE store[key].count

CounterStore == IF useKV THEN kv ELSE rateLimitStore

\* C26: in every step, concurrent ones on the durable store included, a stored
\* count does not decrease, and a counter whose window is current stays stored
\* (so a saturated counter does not become active or absent).
C26_CounterOnlyForward ==
  [][\A key \in DOMAIN CounterStore :
       /\ key \in DOMAIN CounterStore' =>
            CountIn(CounterStore', key) >= CountIn(CounterStore, key)
       /\ key[2] = WindowKey(now') => key \in DOMAIN CounterStore']_vars

\* C30: in every state of either backend, racing requests included, every
\* stored count is the decimal text (durable store) or the number (in-memory
\* store) of an integer from 1 to MAX_REQUESTS_PER_WINDOW.
C30_StoredCountInRange ==
  /\ \A key \in DOMAIN kv :
       /\ ParseInt(kv[key].value) \in 1..MAX_REQUESTS_PER_WINDOW
       /\ kv[key].value = NumToString(ParseInt(kv[key].value))
  /\ \A key \in DOMAIN rateLimitStore :
       rateLimitStore[key].count \in 1..MAX_REQUESTS_PER_WINDOW

C30_Witness ==
  /\ useKV
  /\ HistOf(hist, <<ClientA, 0>>).admitted = 3
  /\ HistOf(hist, <<ClientA, 0>>).inFlight = 2
  /\ ~HistOf(hist, <<ClientA, 0>>).faulted
  /\ Counter("A", 0) = MAX_REQUESTS_PER_WINDOW

\* the window of the request is the window of the clock
InWindow(r) == req[r].windowKey = WindowKey(now)

ExpiresAt(store, key) == IF useKV THEN store[key].expiresAt ELSE store[key].expires

C29_SweepEvicts ==
  /\ [][/\ now' > now => rateLimitStore' = rateLimitStore
        /\ (now' = now /\ \E key \in DOMAIN rateLimitStore :
                            key \notin DOMAIN rateLimitStore') =>
             /\ \E r \in Slots : /\ req[r].pc = "idle"
                                 /\ Decided(r)' /\ ~req'[r].limited
             /\ \A key \in DOMAIN rateLimitStore' :
                  ~(rateLimitStore'[key].expires < now')]_vars
  /\ []<>(Expired = {})

\* an admitted write swept an entry of a past epoch
C29_Witness ==
  \E r \in Slots :
    /\ Finished(r) /\ ~req[r].limited /\ req[r].now0 = 1050
    /\ \E key \in DOMAIN req[r].pre.rateLimitStore :
         /\ req[r].pre.rateLimitStore[key].expires = -1
         /\ key \notin DOMAIN rateLimitStore
    /\ Expired = {}

\* the counter key of a request as its headers and its clock reading give it
OwnKey(q) ==
  <<IF q.headers = Anonymous THEN "anonymous" ELSE q.headers.cf, q.now0 \div 1000>>

\* the stored counter of a key, or Undef
Stored(store, key) == IF key \in DOMAIN store THEN store[key] ELSE Undef

\* C31: in every step, on either backend, a counter is created or changed
\* only by a request of the key's own client and window, a counter is removed
\* only when its window is over, a client's history changes only by its own
\* requests, and a request is rejected only when the counter of its own client
\* and window is saturated: the decisions for one client do not depend on the
\* requests of another.
C31_ClientIsolation ==
  [][/\ \A key \in DOMAIN CounterStore' :
          Stored(CounterStore', key) # Stored(CounterStore, key) =>
            \E r \in Slots : /\ req'[r] # req[r] /\ Decided(r)'
                             /\ OwnKey(req'[r]) = key
     /\ \A key \in DOMAIN CounterStore \ DOMAIN CounterStore' :
          key[2] # WindowKey(now')
     /\ \A key \in DOMAIN hist' :
          HistOf(hist', key) # HistOf(hist, key) =>
            \E r \in Slots : /\ req'[r] # req[r] /\ Active(r)'
                             /\ Observed(req'[r]) = key
     /\ \A r \in Slots :
          (req'[r] # req[r] /\ Decided(r)' /\ req'[r].limited) =>
            /\ OwnKey(req'[r]) \in DOMAIN CounterStore
            /\ Saturated(CountIn(CounterStore, OwnKey(req'[r])))]_vars

\* client A is admitted while the window of the clients without address
\* header is saturated
C31_Witness ==
  \E r \in Slots :
    /\ Finished(r) /\ req[r].headers = ClientA /\ ~req[r].limited
    /\ ~req[r].backendFault /\ req[r].now0 = 0 /\ now = 0
    /\ Counter("anonymous", 0) = MAX_REQUESTS_PER_WINDOW
    /\ Counter("A", 0) = 1
    /\ HistOf(hist, <<Anonymous, 0>>).admitted = 2

\* C32: on the in-memory store, with requests in flight together, at most
\* MAX_REQUESTS_PER_WINDOW writes are admitted per client and window, and the
\* count stored for a key is the number admitted for it.
C32_MemoryCheckAtomic ==
  ~useKV =>
    \A h \in Headers, w \in {WindowKey(t) : t \in {CoarseInstants[i] : i \in DOMAIN CoarseInstants}} :
      /\ HistOf(hist, <<h, w>>).admitted <= MAX_REQUESTS_PER_WINDOW
      /\ Counter(ClientIP(h), w) = HistOf(hist, <<h, w>>).admitted

\* two admitted deletes of one client are suspended when its third is rejected
C32_Witness ==
  \E r, s, t \in Slots :
    /\ ~useKV
    /\ InFlight(r) /\ InFlight(s) /\ r # s
    /\ req[r].headers = Anonymous /\ req[s].headers = Anonymous
    /\ req[t].pc = "done" /\ req[t].limited /\ req[t].headers = Anonymous
    /\ req[r].windowKey = 0 /\ req[s].windowKey = 0 /\ req[t].windowKey = 0
    /\ Counter("anonymous", 0) = MAX_REQUESTS_PER_WINDOW

\* the request was answered 200 with a deleted item
Deleted(r) ==
  Finished(r) /\ req[r].method = "DELETE" /\ req[r].resp.status = 200

\* C33: no two DELETE requests are answered 200 with the same item as
\* deletedItem, also when they overlap between the existence check and the
\* delete statement.
C33_DeletedOnce ==
  \A r, s \in Slots :
    (r # s /\ Deleted(r) /\ Deleted(s)) => req[r].resp.item # req[s].resp.item

\* C34: a request answered with a status outside 200..299 leaves the table as
\* it found it, also when a storage fault strikes the read-back that follows
\* a completed INSERT or UPDATE.
C34_ErrorLeavesTable ==
  \A r \in Slots :
    (Finished(r) /\ req[r].resp.status \notin 200..299) => TableUntouched(r)

\* a request of the same client was rejected in an earlier window
RejectedEarlier(r) ==
  \E key \in DOMAIN hist :
    /\ key[1] = req[r].headers /\ key[2] < req[r].windowKey
    /\ hist[key].rejectedAt >= 0

\* C35: when a request is answered 429, every later clock reading that is at
\* least retryAfter seconds after the answer lies in a window after the
\* window of the rejected request; and a request of a client that was rejected
\* in an earlier window is admitted when fewer than MAX_REQUESTS_PER_WINDOW of
\* the client's writes were admitted in the request's window.
C35_RetryAfterReachesNextWindow ==
  \A r \in Slots :
    /\ (Finished(r) /\ req[r].limited) =>
         \A i \in DOMAIN LateInstants :
           (/\ LateInstants[i] >= now
            /\ LateInstants[i] >= now + req[r].resp.retryAfter * 1000) =>
             WindowKey(LateInstants[i]) > req[r].windowKey
    /\ (/\ Decided(r) /\ RejectedEarlier(r)
        /\ req[r].before.admitted < MAX_REQUESTS_PER_WINDOW) => ~req[r].limited

\* rejected at 400 with retryAfter 1, the client is admitted at 2000
C35_Witness ==
  \E r \in Slots :
    /\ Finished(r) /\ ~req[r].limited /\ ~req[r].backendFault
    /\ req[r].now0 = 2000 /\ req[r].before.admitted = 0
    /\ HistOf(hist, <<req[r].headers, 0>>).rejectedAt = 400
    /\ HistOf(hist, <<req[r].headers, 0>>).admitted = MAX_REQUESTS_PER_WINDOW

====
